---- MODULE Spec2Model ----
(***************************************************************************)
(* A model of the agcwd crate: the AGCWD contrast enhancement pipeline of  *)
(* src/src/lib.rs (histogram -> PDF -> weighting distribution -> CDF ->    *)
(* intensity transformation curve -> per-pixel HSV rewrite) and the colour *)
(* conversions of src/src/color_format.rs.                                 *)
(*                                                                         *)
(* f32 values are modelled in fixed point: the integer n stands for the    *)
(* real n / One, and NaN is a value of its own.  The operations keep the   *)
(* IEEE-754 facts the pipeline depends on: 0/0 is NaN, NaN propagates,     *)
(* pow(x, 0) = 1 for every x (0 and NaN included), pow(1, y) = 1 for every *)
(* y, a / b = 1 exactly when a = b, and EPSILON is the smallest positive   *)
(* increment at 1.0.  Between these exact cases pow is computed to the     *)
(* resolution of the fixed point, not to the last bit of an f32.           *)
(***************************************************************************)
EXTENDS Integers, Sequences, FiniteSets, TLC

\* ------------------------------------------------------------------ f32

FracBits == 15
One == 2^15
NaN == -1
EPSILON == 1

FromInt(n) == n * One

FAdd(a, b) == IF a = NaN \/ b = NaN THEN NaN ELSE a + b

FSub(a, b) == IF a = NaN \/ b = NaN THEN NaN ELSE a - b

\* a * b; exact when a is a whole number (255.0 * p)
FMul(a, b) ==
    IF a = NaN \/ b = NaN THEN NaN
    ELSE IF a % One = 0 THEN (a \div One) * b
    ELSE (a * b) \div One

RECURSIVE DivBits(_, _, _)
\* the k fractional bits of r / b, for 0 <= r < b
DivBits(r, b, k) ==
    IF k = 0 THEN 0
    ELSE IF 2 * r >= b THEN 2^(k - 1) + DivBits(2 * r - b, b, k - 1)
    ELSE DivBits(2 * r, b, k - 1)

\* a / b for 0 <= a <= b (every quotient of the pipeline); 0/0 is NaN
FDiv(a, b) ==
    IF a = NaN \/ b = NaN THEN NaN
    ELSE IF b = 0 THEN NaN
    ELSE IF a = b THEN One
    ELSE IF a = 0 THEN 0
    ELSE DivBits(a, b, FracBits)

\* f32::max, f32::min: a NaN operand is ignored unless both are NaN
FMax(a, b) == IF a = NaN THEN b ELSE IF b = NaN THEN a ELSE IF a >= b THEN a ELSE b

FMin(a, b) == IF a = NaN THEN b ELSE IF b = NaN THEN a ELSE IF a <= b THEN a ELSE b

RECURSIVE SqrtBits(_, _, _)
SqrtBits(n, r, bit) ==
    IF bit = 0 THEN r
    ELSE IF (r + bit) * (r + bit) <= n THEN SqrtBits(n, r + bit, bit \div 2)
    ELSE SqrtBits(n, r, bit \div 2)

\* square root of x in [0, 1]
FSqrt(x) == IF x = One THEN One ELSE SqrtBits(x * One, 0, One \div 2)

RECURSIVE PowFrac(_, _, _)
\* x^(y / 2^b) for 0 <= y < 2^b, by the binary expansion of the exponent:
\* x^(0.e1 e2 ... eb) = sqrt(x^e1 * x^(0.e2 ... eb))
PowFrac(x, y, b) ==
    IF y = 0 THEN One
    ELSE LET half == 2^(b - 1)
             rest == PowFrac(x, y % half, b - 1)
         IN FSqrt(IF y >= half THEN (x * rest) \div One ELSE rest)

\* f32::powf for a base in [0, 1] and an exponent in [0, 1]
Powf(x, y) ==
    IF y = 0 THEN One
    ELSE IF x = One THEN One
    ELSE IF x = NaN \/ y = NaN THEN NaN
    ELSE IF x = 0 THEN 0
    ELSE IF y = One THEN x
    ELSE PowFrac(x, y, FracBits)

\* f32::round followed by `as u8`: NaN becomes 0, the rest saturates
RoundToU8(x) ==
    IF x = NaN THEN 0
    ELSE LET n == (x + One \div 2) \div One
         IN IF n > 255 THEN 255 ELSE IF n < 0 THEN 0 ELSE n

Levels == 0..255

RECURSIVE Fill(_, _, _)
\* the entries lo..hi of a table, each computed once
Fill(f, lo, hi) ==
    IF lo = hi THEN lo :> f[lo]
    ELSE LET mid == (lo + hi) \div 2 IN Fill(f, lo, mid) @@ Fill(f, mid + 1, hi)

\* a [T; 256] written entry by entry
Array(f) == Fill(f, 0, 255)

\* the items an iterator yields, collected in order
Collect(f) == IF DOMAIN f = {} THEN <<>> ELSE Fill(f, 1, Cardinality(DOMAIN f))

Max2(a, b) == IF a >= b THEN a ELSE b

Min2(a, b) == IF a <= b THEN a ELSE b

Max3(a, b, c) == Max2(a, Max2(b, c))

Min3(a, b, c) == Min2(a, Min2(b, c))

\* ----------------------------------------------------------------- bounds

\* the longest of the buffers enumerated byte by byte
MaxLen == 4

\* how many times the caller enhances one buffer
MaxCalls == 2

\* the byte values of the enumerated buffers
SampleBytes == {0, 255}

RECURSIVE SeqsUpTo(_, _)
SeqsUpTo(S, n) ==
    IF n = 0 THEN {<<>>}
    ELSE LET shorter == SeqsUpTo(S, n - 1)
         IN shorter \cup {Append(q, x) : q \in {t \in shorter : Len(t) = n - 1}, x \in S}

\* pixels of lib.rs's tests and documentation
TestRgb == <<1, 2, 3, 4, 5, 6>>

TestRgba == <<1, 2, 3, 4, 5, 6, 7, 8>>

DocRgb == <<0, 1, 2, 3, 4, 5>>

Repeat(q, n) == [j \in 1..(n * Len(q)) |-> q[((j - 1) % Len(q)) + 1]]

\* an 8x8 RGB image filled with (128, 128, 128)
Gray8x8 == Repeat(<<128, 128, 128>>, 64)

\* 256 RGB pixels, one of every brightness: every histogram bin holds 1
Ramp == [j \in 1..768 |-> (j - 1) \div 3]

\* RGB pixels of every hue sector, of several brightnesses
Hues == <<200, 40, 10,  90, 120, 30,  20, 180, 60,  10, 30, 200,  0, 94, 11,
          150, 20, 220,  250, 10, 90,  60, 60, 60>>

\* the same pixels as RGBA, with distinct alpha bytes
HuesRgba == <<200, 40, 10, 7,  90, 120, 30, 255,  20, 180, 60, 0,  10, 30, 200, 99>>

Buffers ==
    SeqsUpTo(SampleBytes, MaxLen)
        \cup {TestRgb, TestRgba, DocRgb, Gray8x8, Ramp, Hues, HuesRgba,
              Repeat(<<0, 0, 0>>, 2), Append(TestRgb, 9)}

\* 0.5 (the default of the callers) and 1.0
Alphas == {One \div 2, One}

\* ------------------------------------------------------- lib.rs: pixels

\* <[u8]>::chunks_exact(N): the whole chunks only, a shorter tail is left out
ChunksExact(buf, N) ==
    Collect([k \in 1..(Len(buf) \div N) |-> SubSeq(buf, (k - 1) * N + 1, k * N)])

\* Image::new with the size rounded up: a ragged tail counted as a pixel
ImageNew_rounded_up(buf, N) == [pixels |-> buf, size |-> (Len(buf) + N - 1) \div N]

\* Image::new: size = pixels.len() / N
ImageNew(buf, N) == [pixels |-> buf, size |-> Len(buf) \div N]

\* Image::len
ImageLen(image) == image.size

\* Image::intensities: max(p[0], p[1], p[2]) of every chunk
Intensities(image, N) ==
    LET chunks == ChunksExact(image.pixels, N)
    IN Collect([k \in 1..Len(chunks) |-> Max3(chunks[k][1], chunks[k][2], chunks[k][3])])

\* the counting loop of Pdf::new: histogram[intensity] += 1
Histogram(intensities) ==
    Array([i \in Levels |-> Cardinality({k \in 1..Len(intensities) : intensities[k] = i})])

\* Pdf::new, the division loop: pdf[i] = c as f32 / n
PdfNew(hist, n) == Array([i \in Levels |-> FDiv(FromInt(hist[i]), FromInt(n))])

RECURSIVE FoldMax(_, _, _)
\* max_intensity of to_weighting_distribution over pdf[lo..hi]: the loop's
\* max_intensity.max(x), folded by halves (f32::max is associative)
FoldMax(p, lo, hi) ==
    IF lo = hi THEN p[lo]
    ELSE LET mid == (lo + hi) \div 2
         IN FMax(FoldMax(p, lo, mid), FoldMax(p, mid + 1, hi))

RECURSIVE FoldMin(_, _, _)
\* min_intensity of to_weighting_distribution over pdf[lo..hi]
FoldMin(p, lo, hi) ==
    IF lo = hi THEN p[lo]
    ELSE LET mid == (lo + hi) \div 2
         IN FMin(FoldMin(p, lo, mid), FoldMin(p, mid + 1, hi))

\* Pdf::to_weighting_distribution
to_weighting_distribution(p, a) ==
    LET max_intensity == FoldMax(p, 0, 255)
        min_intensity == FoldMin(p, 0, 255)
        range == FAdd(FSub(max_intensity, min_intensity), EPSILON)
    IN Array([i \in Levels |->
                FMul(max_intensity, Powf(FDiv(FSub(p[i], min_intensity), range), a))])

RECURSIVE RunningSum(_, _, _, _)
\* the first loop of Cdf::new over pdf[lo..hi], entered with the running sum
\* `sum`: sum += x; cdf[i] = sum.  The values of cdf[lo..hi], in order.
RunningSum(p, lo, hi, sum) ==
    IF lo = hi THEN <<FAdd(sum, p[lo])>>
    ELSE LET mid == (lo + hi) \div 2
             left == RunningSum(p, lo, mid, sum)
         IN left \o RunningSum(p, mid + 1, hi, left[Len(left)])

\* Cdf::new
CdfNew(p) ==
    LET sums == RunningSum(p, 0, 255, 0)
        sum == sums[256]
    IN Array([i \in Levels |-> FDiv(sums[i + 1], sum)])

\* a curve entry with the exponent x in place of 1.0 - x
CurveEntry_exponent_cdf(i, x) ==
    RoundToU8(FMul(FromInt(255), Powf(FDiv(FromInt(i), FromInt(255)), x)))

\* one entry of IntensityTransformationCurve::new
CurveEntry(i, x) ==
    RoundToU8(FMul(FromInt(255), Powf(FDiv(FromInt(i), FromInt(255)), FSub(One, x))))

\* IntensityTransformationCurve::new
CurveNew(cdf) == Array([i \in Levels |-> CurveEntry(i, cdf[i])])

\* ------------------------------------------------- lib.rs: HSV rewrite

\* lib.rs rgb_to_hsv up to its last line: h, s, v as usize
rgb_to_hsv_usize(r, g, b) ==
    LET max == Max3(r, g, b)
        min == Min3(r, g, b)
        n == max - min
        s == IF max = 0 THEN 0 ELSE (n * 255) \div max
        v == max
        h == (IF n = 0 THEN 0
              ELSE IF max = r
                   THEN IF g < b
                        THEN (6 * 255) + ((g * 255) \div n) - ((b * 255) \div n)
                        ELSE ((g - b) * 255) \div n
              ELSE IF max = g
                   THEN 2 * 255 + ((b * 255) \div n) - ((r * 255) \div n)
              ELSE 4 * 255 + ((r * 255) \div n) - ((g * 255) \div n)) \div 6
    IN <<h, s, v>>

\* lib.rs rgb_to_hsv: (h as u8, s as u8, v as u8), each cast keeping the low 8 bits
rgb_to_hsv(r, g, b) ==
    LET w == rgb_to_hsv_usize(r, g, b) IN <<w[1] % 256, w[2] % 256, w[3] % 256>>

\* lib.rs hsv_to_rgb: the match on h6 / 255
hsv_sector(h) == (h * 6) \div 255

\* lib.rs hsv_to_rgb: the debug_assert! of the fall-through arm
debug_assert(n) == n = 1 \/ n = 6

\* lib.rs hsv_to_rgb: r, g, b as usize, before the casts of the last line
hsv_to_rgb_usize(h, s, v) ==
    IF s = 0 THEN <<v, v, v>>
    ELSE LET h6 == h * 6
             f == h6 % 255
             n == hsv_sector(h)
             lo == (v * (255 - s)) \div 255
             up == (v * (255 * 255 - s * f)) \div (255 * 255)
             dn == (v * (255 * 255 - s * (255 - f))) \div (255 * 255)
         IN CASE n = 1 -> <<up, v, lo>>
              [] n = 2 -> <<lo, v, dn>>
              [] n = 3 -> <<lo, up, v>>
              [] n = 4 -> <<dn, lo, v>>
              [] n = 5 -> <<v, lo, up>>
              [] OTHER -> <<v, dn, lo>>

\* lib.rs hsv_to_rgb: (r as u8, g as u8, b as u8); panic tells that the arm taken
\* is the fall-through arm and its debug_assert! fails (a panic in a debug build)
hsv_to_rgb(h, s, v) ==
    LET w == hsv_to_rgb_usize(h, s, v)
        n == hsv_sector(h)
    IN [rgb |-> <<w[1] % 256, w[2] % 256, w[3] % 256>>,
        panic |-> s # 0 /\ n \notin 1..5 /\ ~debug_assert(n)]

\* ------------------------------------------------------ color_format.rs

\* color_format.rs rgb_to_hsv up to its last line: h, s, v as usize
cf_rgb_to_hsv_usize(r, g, b) ==
    LET max == Max3(r, g, b)
        min == Min3(r, g, b)
        n == max - min
        s == IF max = 0 THEN 0 ELSE (n * 255) \div max
        v == max
        h == (IF n = 0 THEN 0
              ELSE IF max = r
                   THEN IF g < b
                        THEN (6 * 255) + ((g * 255) \div n) - ((b * 255) \div n)
                        ELSE ((g - b) * 255) \div n
              ELSE IF max = g
                   THEN 2 * 255 + ((b * 255) \div n) - ((r * 255) \div n)
              ELSE 4 * 255 + ((r * 255) \div n) - ((g * 255) \div n)) \div 6
    IN <<h, s, v>>

\* color_format.rs rgb_to_hsv: (h as u8, s as u8, v as u8), each cast keeping the low 8 bits
cf_rgb_to_hsv(r, g, b) ==
    LET w == cf_rgb_to_hsv_usize(r, g, b) IN <<w[1] % 256, w[2] % 256, w[3] % 256>>

\* color_format.rs hsv_to_rgb: the match on h6 / 255
cf_hsv_sector(h) == (h * 6) \div 255

\* color_format.rs hsv_to_rgb: the debug_assert! of the fall-through arm
cf_debug_assert(n) == n = 0 \/ n = 6

\* color_format.rs hsv_to_rgb: r, g, b as usize, before the casts of the last line
cf_hsv_to_rgb_usize(h, s, v) ==
    IF s = 0 THEN <<v, v, v>>
    ELSE LET h6 == h * 6
             f == h6 % 255
             n == cf_hsv_sector(h)
             lo == (v * (255 - s)) \div 255
             up == (v * (255 * 255 - s * f)) \div (255 * 255)
             dn == (v * (255 * 255 - s * (255 - f))) \div (255 * 255)
         IN CASE n = 1 -> <<up, v, lo>>
              [] n = 2 -> <<lo, v, dn>>
              [] n = 3 -> <<lo, up, v>>
              [] n = 4 -> <<dn, lo, v>>
              [] n = 5 -> <<v, lo, up>>
              [] OTHER -> <<v, dn, lo>>

\* color_format.rs hsv_to_rgb: (r as u8, g as u8, b as u8); panic tells that the arm taken
\* is the fall-through arm and its debug_assert! fails (a panic in a debug build)
cf_hsv_to_rgb(h, s, v) ==
    LET w == cf_hsv_to_rgb_usize(h, s, v)
        n == cf_hsv_sector(h)
    IN [rgb |-> <<w[1] % 256, w[2] % 256, w[3] % 256>>,
        panic |-> s # 0 /\ n \notin 1..5 /\ ~cf_debug_assert(n)]

\* x >> 8 on an i32: the arithmetic shift, the floor of x / 256
Shr8(x) == IF x >= 0 THEN x \div 256 ELSE -((255 - x) \div 256)

\* to_u8 of yuv_to_rgb: min(max(x, 0), 255) as u8
to_u8(x) == Min2(Max2(x, 0), 255)

\* color_format.rs yuv_to_rgb
yuv_to_rgb(y, u, v) ==
    LET c == y - 16
        d == u - 128
        e == v - 128
        r == Shr8(298 * c + 409 * e + 128)
        g == Shr8(298 * c - 100 * d - 208 * e + 128)
        b == Shr8(298 * c + 516 * d + 128)
    IN <<to_u8(r), to_u8(g), to_u8(b)>>

\* color_format.rs rgb_to_yuv
rgb_to_yuv(r, g, b) ==
    LET y == Shr8(66 * r + 129 * g + 25 * b + 128) + 16
        u == Shr8(-38 * r - 74 * g + 112 * b + 128) + 128
        v == Shr8(112 * r - 94 * g - 18 * b) + 128
    IN <<y % 256, u % 256, v % 256>>

\* color_format.rs yuv_to_hsv
yuv_to_hsv(y, u, v) ==
    LET rgb == yuv_to_rgb(y, u, v) IN cf_rgb_to_hsv(rgb[1], rgb[2], rgb[3])

\* color_format.rs hsv_to_yuv
hsv_to_yuv(h, s, v) ==
    LET out == cf_hsv_to_rgb(h, s, v)
    IN [yuv |-> rgb_to_yuv(out.rgb[1], out.rgb[2], out.rgb[3]), panic |-> out.panic]

\* ---------------------------------------------------------------- state

VARIABLES
    pixels,     \* the caller's buffer, the &mut [u8] handed to enhance_*_image
    alpha,      \* Agcwd.alpha
    debug,      \* the build: TRUE when debug_assert! is compiled in
    pc,         \* "idle" before any call, then how the last call ended: "done" | "panicked"
    calls,      \* how many calls were made
    stride,     \* N of the last call
    before,     \* the buffer as the last call received it
    size,       \* Image.size of the last call
    histogram,  \* the histogram of the last call
    pdf,        \* the Pdf of the last call
    pdf_w,      \* its weighting distribution
    cdf_w,      \* the Cdf of the last call
    curve,      \* the IntensityTransformationCurve of the last call
    written,    \* how many pixels the last call's update_pixels rewrote
    conv        \* color_format.rs: the conversion under test and its result

vars == <<pixels, alpha, debug, pc, calls, stride, before, size, histogram,
          pdf, pdf_w, cdf_w, curve, written, conv>>

imageVars == <<pixels, alpha, debug, pc, calls, stride, before, size, histogram,
               pdf, pdf_w, cdf_w, curve, written>>

\* the closure with the curve indexed by s in place of v
Remap_indexed_by_s(c, r, g, b) ==
    LET hsv == rgb_to_hsv(r, g, b) IN hsv_to_rgb(hsv[1], hsv[2], c[hsv[2]])

\* the closure of enhance_image: rgb_to_hsv, the curve on v, hsv_to_rgb
Remap(c, r, g, b) ==
    LET hsv == rgb_to_hsv(r, g, b) IN hsv_to_rgb(hsv[1], hsv[2], c[hsv[3]])

\* update_pixels writing rgb.2 to the last byte of the chunk, p[N - 1], in
\* place of p[2]
update_pixels_last_byte(buf, N, c, dbg) ==
    LET chunks == ChunksExact(buf, N)
        out == Collect([k \in 1..Len(chunks) |->
                          Remap(c, chunks[k][1], chunks[k][2], chunks[k][3])])
    IN [pixels |-> [j \in 1..Len(buf) |->
                      LET k == ((j - 1) \div N) + 1
                          p == (j - 1) % N
                      IN IF k > Len(chunks) THEN buf[j]
                         ELSE IF p < 2 THEN out[k].rgb[p + 1]
                         ELSE IF p = N - 1 THEN out[k].rgb[3]
                         ELSE buf[j]],
        written |-> Len(chunks),
        panicked |-> FALSE]

\* Image::update_pixels: p[0], p[1], p[2] of each whole chunk are rewritten, in
\* order; in a debug build the first chunk whose debug_assert! fails ends the
\* loop by a panic, the chunks before it rewritten
update_pixels(buf, N, c, dbg) ==
    LET chunks == ChunksExact(buf, N)
        out == Collect([k \in 1..Len(chunks) |->
                          Remap(c, chunks[k][1], chunks[k][2], chunks[k][3])])
        failing == {k \in 1..Len(chunks) : dbg /\ out[k].panic}
        stop == IF failing = {} THEN Len(chunks) + 1
                ELSE CHOOSE k \in failing : \A j \in failing : k <= j
    IN [pixels |-> [j \in 1..Len(buf) |->
                      LET k == ((j - 1) \div N) + 1
                          p == (j - 1) % N
                      IN IF k < stop /\ k <= Len(chunks) /\ p < 3
                         THEN out[k].rgb[p + 1] ELSE buf[j]],
        written |-> stop - 1,
        panicked |-> failing # {}]

\* Agcwd::enhance_image::<N>
enhance_image(N) ==
    LET image == ImageNew(pixels, N)
        out == update_pixels(pixels, N, curve', debug)
    IN /\ calls' = calls + 1
       /\ stride' = N
       /\ before' = pixels
       /\ size' = ImageLen(image)
       /\ histogram' = Histogram(Intensities(image, N))
       /\ pdf' = PdfNew(histogram', ImageLen(image))
       /\ pdf_w' = to_weighting_distribution(pdf', alpha)
       /\ cdf_w' = CdfNew(pdf_w')
       /\ curve' = CurveNew(cdf_w')
       /\ pixels' = out.pixels
       /\ written' = out.written
       /\ pc' = IF out.panicked THEN "panicked" ELSE "done"
       /\ UNCHANGED <<alpha, debug, conv>>

\* the caller may call again unless a panic ended it (at most MaxCalls calls)
MayCall == pc # "panicked" /\ calls < MaxCalls

\* Agcwd::enhance_rgb_image
enhance_rgb_image ==
    /\ MayCall
    /\ enhance_image(3)

\* Agcwd::enhance_rgba_image
enhance_rgba_image ==
    /\ MayCall
    /\ enhance_image(4)

ZeroTable == [i \in Levels |-> 0]

ConvIdle == [op |-> "none", input |-> <<0, 0, 0>>, output |-> <<0, 0, 0>>, panicked |-> FALSE]

\* Agcwd::new(alpha) was called and the caller holds a buffer
Init ==
    /\ pixels \in Buffers
    /\ alpha \in Alphas
    /\ debug \in BOOLEAN
    /\ pc = "idle"
    /\ calls = 0
    /\ stride = 0
    /\ before = <<>>
    /\ size = 0
    /\ histogram = ZeroTable
    /\ pdf = ZeroTable
    /\ pdf_w = ZeroTable
    /\ cdf_w = ZeroTable
    /\ curve = ZeroTable
    /\ written = 0
    /\ conv = ConvIdle

Next == enhance_rgb_image \/ enhance_rgba_image

Spec == Init /\ [][Next]_vars

\* ------------------------------------- color_format.rs: the conversions

\* the channel values the conversions are tried on
SampleChannels == {0, 4, 11, 94, 230, 255}

\* hsv_to_rgb(rgb_to_hsv(r, g, b)), as tests::rgb_to_hsv_works composes them
rgb_hsv_rgb ==
    /\ conv.op = "none"
    /\ LET i == conv.input
           hsv == cf_rgb_to_hsv(i[1], i[2], i[3])
           out == cf_hsv_to_rgb(hsv[1], hsv[2], hsv[3])
       IN conv' = [conv EXCEPT !.op = "hsv", !.output = out.rgb, !.panicked = out.panic]
    /\ UNCHANGED imageVars

\* yuv_to_rgb(rgb_to_yuv(r, g, b)), as tests::rgb_to_yuv_works composes them
rgb_yuv_rgb ==
    /\ conv.op = "none"
    /\ LET i == conv.input
           yuv == rgb_to_yuv(i[1], i[2], i[3])
       IN conv' = [conv EXCEPT !.op = "yuv", !.output = yuv_to_rgb(yuv[1], yuv[2], yuv[3])]
    /\ UNCHANGED imageVars

\* hsv_to_yuv(yuv_to_hsv(y, u, v)), as tests::yuv_to_hsv_works composes them
yuv_hsv_yuv ==
    /\ conv.op = "none"
    /\ LET i == conv.input
           hsv == yuv_to_hsv(i[1], i[2], i[3])
           out == hsv_to_yuv(hsv[1], hsv[2], hsv[3])
       IN conv' = [conv EXCEPT !.op = "yuv_hsv", !.output = out.yuv, !.panicked = out.panic]
    /\ UNCHANGED imageVars

InitColor ==
    /\ pixels = <<>>
    /\ alpha = One \div 2
    /\ debug = TRUE
    /\ pc = "idle"
    /\ calls = 0
    /\ stride = 0
    /\ before = <<>>
    /\ size = 0
    /\ histogram = ZeroTable
    /\ pdf = ZeroTable
    /\ pdf_w = ZeroTable
    /\ cdf_w = ZeroTable
    /\ curve = ZeroTable
    /\ written = 0
    /\ \E r \in SampleChannels, g \in SampleChannels, b \in SampleChannels :
          conv = [ConvIdle EXCEPT !.input = <<r, g, b>>]

NextColor == rgb_hsv_rgb \/ rgb_yuv_rgb \/ yuv_hsv_yuv

SpecColor == InitColor /\ [][NextColor]_vars

\* --------------------------------------------------------------- claims

\* the k-th whole pixel of a buffer read with stride N
PixelAt(buf, N, k) == <<buf[(k - 1) * N + 1], buf[(k - 1) * N + 2], buf[(k - 1) * N + 3]>>

RECURSIVE SumTable(_, _, _)
SumTable(t, lo, hi) ==
    IF lo = hi THEN t[lo]
    ELSE SumTable(t, lo, (lo + hi) \div 2) + SumTable(t, ((lo + hi) \div 2) + 1, hi)

Near(a, b, d) == a - b <= d /\ b - a <= d

\* C1: a call on a buffer whose length is not a multiple of the stride fails and
\* reports it (the only report enhance_*_image can make is a panic), and the
\* buffer is not processed
C1_FailsOnRaggedBuffer ==
    (pc # "idle" /\ Len(before) % stride # 0) => (pc = "panicked" /\ pixels = before)

\* C2: enhance_rgba_image leaves every 4th byte of the buffer as it was; only
\* the R, G, B bytes of a pixel may change
C2_AlphaBytesKept ==
    (pc # "idle" /\ stride = 4) =>
        /\ Len(pixels) = Len(before)
        /\ \A j \in 1..Len(pixels) : j % 4 = 0 => pixels[j] = before[j]

C2_Witness ==
    /\ pc = "done" /\ stride = 4 /\ before = HuesRgba
    /\ \A k \in 1..4 : PixelAt(pixels, 4, k) # PixelAt(before, 4, k)

\* C3: hsv_to_rgb(rgb_to_hsv(r, g, b)) is within 2 of (r, g, b) on every channel
C3_HsvRoundTripWithin2 ==
    conv.op = "hsv" => \A c \in 1..3 : Near(conv.output[c], conv.input[c], 2)

C5_CurveStartsAtZero == (pc # "idle" /\ size > 0) => curve[0] = 0

\* C6: when all 256 bins of the histogram of a non-empty image hold the same
\* count (pdf_max = pdf_min), the weighted PDF and the CDF hold no NaN and the
\* curve is near the identity
C6_FlatPdfIsDefined ==
    (pc # "idle" /\ size > 0 /\ \A i \in Levels : histogram[i] = histogram[0]) =>
        /\ \A i \in Levels : pdf_w[i] # NaN /\ cdf_w[i] # NaN
        /\ \A i \in Levels : Near(curve[i], i, 2)

\* C7: yuv_to_rgb(rgb_to_yuv(r, g, b)) is within 2 of (r, g, b) on every channel
C7_YuvRoundTripWithin2 ==
    conv.op = "yuv" => \A c \in 1..3 : Near(conv.output[c], conv.input[c], 2)

\* C8: for a non-empty pixel view the 256 counters of the histogram sum to
\* Image::len, the buffer length divided by the stride, and the counter of
\* level i counts the pixels whose max(R, G, B) is i
C8_HistogramSumsToLen ==
    (pc # "idle" /\ size > 0) =>
        /\ size = Len(before) \div stride
        /\ SumTable(histogram, 0, 255) = size
        /\ \A k \in 1..size :
              LET p == PixelAt(before, stride, k) IN histogram[Max3(p[1], p[2], p[3])] >= 1

C8_Witness ==
    /\ pc = "done" /\ size = 2 /\ Len(before) % stride # 0
    /\ \E i \in Levels, j \in Levels : i # j /\ histogram[i] = 1 /\ histogram[j] = 1

\* C9: the debug_assert! of hsv_to_rgb's fall-through arm holds for every pixel
\* enhance_image rewrites: no call panics, a debug build included
C9_AssertNeverFails == pc # "panicked"

\* C10: every pixel written back has brightness curve[max(r, g, b)] (and would
\* have brightness c under any other curve value c); v of rgb_to_hsv is the
\* max(R, G, B) the histogram bins; and no value cast to u8 is outside 0..255
C10_BrightnessIsCurveOfMax ==
    pc # "idle" =>
        \A k \in 1..written :
            LET p == PixelAt(before, stride, k)
                q == PixelAt(pixels, stride, k)
                wide == rgb_to_hsv_usize(p[1], p[2], p[3])
                hsv == rgb_to_hsv(p[1], p[2], p[3])
            IN /\ \A c \in 1..3 : wide[c] \in 0..255
               /\ hsv[3] = Max3(p[1], p[2], p[3])
               /\ Max3(q[1], q[2], q[3]) = curve[Max3(p[1], p[2], p[3])]
               /\ \A cv \in Levels :
                     LET out == hsv_to_rgb_usize(hsv[1], hsv[2], cv)
                     IN /\ \A c \in 1..3 : out[c] \in 0..255
                        /\ Max3(out[1], out[2], out[3]) = cv

C10_Witness ==
    /\ pc = "done" /\ before = Hues /\ stride = 3 /\ written = 8
    /\ {hsv_sector(rgb_to_hsv(PixelAt(before, 3, k)[1], PixelAt(before, 3, k)[2],
                              PixelAt(before, 3, k)[3])[1]) : k \in 1..8} = 0..5
    /\ \E k \in 1..8 : curve[Max3(PixelAt(before, 3, k)[1], PixelAt(before, 3, k)[2],
                                  PixelAt(before, 3, k)[3])] \notin {0, 255}

====
